---- MODULE Spec2Model ----
(***************************************************************************)
(* Pipeline::Composer of include/Pipeline.hpp (the final variant, lines    *)
(* 201-559): stage objects on a heap linked by previousFunction, the four  *)
(* stage kinds, the source adapter Iterate, and the Composer that owns a   *)
(* chain through its first (head) and last (tail) pointers.                *)
(***************************************************************************)
EXTENDS Integers, Sequences, FiniteSets, TLC

\* ------------------------------------------------------------------ bounds
\* Stage objects the composers of Spec and of SpecRun may own together.
MaxObj == 4
\* Largest capacity handed to Take in SpecRun.
MaxCap == 2
\* Largest number of steps handed to the constructor of Compose.
MaxSteps == 3
\* The number of bits size_t is given: capacities are taken modulo 2^SizeBits.
SizeBits == 8

\* ------------------------------------------------------------ the callables
\* The lambdas of main(): addOne, square, subtract10 (function<T(const T&)>),
\* greater5 (function<bool(const T&)>), comparer and less<int>
\* (function<bool(const T&, const T&)>).
addOne(x) == x + 1
\* A square that doubles: return x + x;
Doubled(x) == x + x
square(x) == x * x
subtract10(x) == x - 10
greater5(x) == x > 5
comparer(x, y) == x > y
less(x, y) == x < y

\* A caller-supplied callable that fails: as an updater it returns its
\* argument and as a checker true, and either throws when the argument is 7;
\* as a comparer it throws whenever it is called.
Fails(f, x) == f = "failing" /\ x = 7
ComparerFails(f) == f = "failing"

\* updater(*result)
ApplyUpdater(f, x) ==
  CASE f = "addOne" -> addOne(x)
    [] f = "square" -> square(x)
    [] f = "subtract10" -> subtract10(x)
    [] f = "failing" -> x

\* checker(*result)
ApplyChecker(f, x) ==
  CASE f = "greater5" -> greater5(x)
    [] f = "failing" -> TRUE

\* comparer(*first, *second)
ApplyComparer(f, x, y) ==
  CASE f = "comparer" -> comparer(x, y)
    [] f = "less" -> less(x, y)

\* ------------------------------------------------------------------ heap
\* shared_ptr<Functor<T>>: an address of the heap, or nullptr.
Null == 0

\* make_shared: the new object's address.
NewAddr(h) == CHOOSE a \in 1..(Cardinality(DOMAIN h) + 1) : a \notin DOMAIN h

Alloc(h, a, o) == (a :> o) @@ h

\* The constructors: previousFunction(nullptr), the callable, the run state.
NewSelect(f) == [kind |-> "Select", previousFunction |-> Null, updater |-> f]
NewWhere(f) == [kind |-> "Where", previousFunction |-> Null, checker |-> f]
NewTake(n) ==
  [kind |-> "Take", previousFunction |-> Null, remaining |-> n, capacity |-> n]
NewOrderBy(f) ==
  [kind |-> "OrderBy", previousFunction |-> Null, comparer |-> f,
   processed |-> FALSE, results |-> <<>>]
NewComposer(f, l) == [kind |-> "Composer", first |-> f, last |-> l]
\* Iterate(values): it = cbegin(values), end = cend(values); the model keeps
\* the elements from it to end.
NewIterate(values) == [kind |-> "Iterate", rest |-> values]

\* unique_ptr<T>: a value or nullptr; the other outcomes are a call through a
\* null shared_ptr and a recursion that does not return.
Val(v) == [st |-> "val", v |-> v]
Nil == [st |-> "null", v |-> 0]
Segv == [st |-> "segv", v |-> 0]
Loop == [st |-> "loop", v |-> 0]
\* The call did not return: an exception of a callable passes through it.
Thrown == [st |-> "throw", v |-> 0]

Ret(h, r, log) == [h |-> h, r |-> r, log |-> log]

\* ------------------------------------------- setPreviousFunction and friends
RECURSIVE SetPrev(_, _, _)
\* setPreviousFunction: the stages store it, Iterate ignores it, a Composer
\* hands it to its last stage (a null last is a call through nullptr: the
\* callers test HasTail first).
SetPrev(h, a, p) ==
  IF h[a].kind = "Iterate" THEN h
  ELSE IF h[a].kind = "Composer"
       THEN (IF h[a].last = Null THEN h ELSE SetPrev(h, h[a].last, p))
       ELSE [h EXCEPT ![a].previousFunction = p]

RECURSIVE GetPrev(_, _)
\* getPreviousFunction
GetPrev(h, a) ==
  IF h[a].kind = "Iterate" THEN Null
  ELSE IF h[a].kind = "Composer"
       THEN (IF h[a].last = Null THEN Null ELSE GetPrev(h, h[a].last))
       ELSE h[a].previousFunction

RECURSIVE HasTail(_, _)
\* Whether last->setPreviousFunction / last->getPreviousFunction on a reaches a
\* stage without calling through nullptr.
HasTail(h, a) ==
  IF a = Null THEN FALSE
  ELSE IF h[a].kind = "Composer" THEN HasTail(h, h[a].last) ELSE TRUE

\* ------------------------------------------------------------- operator()
\* One entry of the pull log: stage s was called with reset and returned r.
Event(a, reset, r) == [s |-> a, reset |-> reset, r |-> r]

\* An outcome that is neither a value nor nullptr ends the run at once.
Aborted(r) == r.st \notin {"val", "null"}

RECURSIVE InsertSorted(_, _, _)
InsertSorted(x, s, f) ==
  IF s = <<>> THEN <<x>>
  ELSE IF ApplyComparer(f, x, Head(s)) THEN <<x>> \o s
       ELSE <<Head(s)>> \o InsertSorted(x, Tail(s), f)

RECURSIVE SortBy(_, _)
\* sort(results.begin(), results.end(), comparer) for a comparer that is a
\* strict weak ordering on int: the permutation in which no element precedes
\* one the comparer puts before it.
SortBy(s, f) ==
  IF s = <<>> THEN <<>> ELSE InsertSorted(Head(s), SortBy(Tail(s), f), f)

RECURSIVE Pull(_, _, _, _)
RECURSIVE WhereLoop(_, _, _, _, _)
RECURSIVE DrainLoop(_, _, _, _, _)

\* Select::operator() once previousFunction has returned up:
\* if (result != nullptr) result = make_unique<T>(updater(*result));
SelectResult(f, up) ==
  IF up.r.st = "val"
  THEN (IF Fails(f, up.r.v) THEN [up EXCEPT !.r = Thrown]
        ELSE [up EXCEPT !.r = Val(ApplyUpdater(f, up.r.v))])
  ELSE up

\* Select::operator()
SelectPull(h, a, reset, fuel) ==
  SelectResult(h[a].updater, Pull(h, h[a].previousFunction, reset, fuel - 1))

\* A Where::operator() that pulls again with needReset = true after an element
\* the checker turned down
WhereTestResets(a, fuel, log, up) ==
  IF up.r.st = "val" /\ Fails(up.h[a].checker, up.r.v)
  THEN Ret(up.h, Thrown, log \o up.log)
  ELSE IF up.r.st = "val" /\ ~ApplyChecker(up.h[a].checker, up.r.v)
       THEN WhereLoop(up.h, a, TRUE, fuel, log \o up.log)
       ELSE Ret(up.h, up.r, log \o up.log)

\* A Where::operator() without the loop: an element the checker turns down is
\* answered with nullptr
WhereTestStops(a, fuel, log, up) ==
  IF up.r.st = "val" /\ Fails(up.h[a].checker, up.r.v)
  THEN Ret(up.h, Thrown, log \o up.log)
  ELSE IF up.r.st = "val" /\ ~ApplyChecker(up.h[a].checker, up.r.v)
       THEN Ret(up.h, Nil, log \o up.log)
       ELSE Ret(up.h, up.r, log \o up.log)

\* while (result != nullptr && !checker(*result)), previousFunction having
\* returned up
WhereTest(a, fuel, log, up) ==
  IF up.r.st = "val" /\ Fails(up.h[a].checker, up.r.v)
  THEN Ret(up.h, Thrown, log \o up.log)
  ELSE IF up.r.st = "val" /\ ~ApplyChecker(up.h[a].checker, up.r.v)
       THEN WhereLoop(up.h, a, FALSE, fuel, log \o up.log)
       ELSE Ret(up.h, up.r, log \o up.log)

\* The do-while of Where::operator():
\* result = previousFunction->operator()(needReset); needReset = false;
WhereLoop(h, a, needReset, fuel, log) ==
  WhereTest(a, fuel, log, Pull(h, h[a].previousFunction, needReset, fuel - 1))

\* Where::operator()
WherePull(h, a, reset, fuel) == WhereLoop(h, a, reset, fuel, <<>>)

\* if (result == nullptr) remaining = 0; return result;
TakeResult(a, up) ==
  IF up.r.st = "null" THEN [up EXCEPT !.h[a].remaining = 0] ELSE up

\* A Take::operator() without --remaining
TakeCountNoDecrement(h, a, reset, fuel) ==
  IF h[a].remaining = 0 THEN Ret(h, Nil, <<>>)
  ELSE TakeResult(a, Pull(h, h[a].previousFunction, reset, fuel - 1))

\* A Take::operator() that is ready for capacity more elements once it has
\* returned nullptr: if (!remaining) { remaining = _capacity; return nullptr; }
TakeCountRearm(h, a, reset, fuel) ==
  IF h[a].remaining = 0
  THEN Ret([h EXCEPT ![a].remaining = h[a].capacity], Nil, <<>>)
  ELSE TakeResult(a, Pull([h EXCEPT ![a].remaining = @ - 1],
                          h[a].previousFunction, reset, fuel - 1))

\* A Take::operator() that pulls before it looks at remaining:
\* auto result = previousFunction->operator()(reset);
\* if (!remaining) return nullptr; --remaining;
TakeEagerResult(a, up) ==
  IF Aborted(up.r) THEN up
  ELSE IF up.h[a].remaining = 0 THEN Ret(up.h, Nil, up.log)
       ELSE TakeResult(a, [up EXCEPT !.h[a].remaining = @ - 1])
TakeCountEager(h, a, reset, fuel) ==
  TakeEagerResult(a, Pull(h, h[a].previousFunction, reset, fuel - 1))

\* if (!remaining) return nullptr; --remaining;
\* auto result = previousFunction->operator()(reset);
TakeCount(h, a, reset, fuel) ==
  IF h[a].remaining = 0 THEN Ret(h, Nil, <<>>)
  ELSE TakeResult(a, Pull([h EXCEPT ![a].remaining = @ - 1],
                          h[a].previousFunction, reset, fuel - 1))

\* A Take::operator() without if (reset) remaining = _capacity;
TakePullNoReset(h, a, reset, fuel) == TakeCount(h, a, reset, fuel)

\* Take::operator(): if (reset) remaining = _capacity; ...
TakePull(h, a, reset, fuel) ==
  TakeCount(IF reset THEN [h EXCEPT ![a].remaining = h[a].capacity] ELSE h,
            a, reset, fuel)

\* An OrderBy::operator() that leaves the loop with the first element:
\* results.emplace_back(move(result)); break;
DrainTestFirstOnly(a, fuel, log, up) ==
  IF up.r.st = "val"
  THEN Ret([up.h EXCEPT ![a].results = Append(@, up.r.v)], Nil,
           log \o up.log)
  ELSE Ret(up.h, up.r, log \o up.log)

\* if (result == nullptr) break; results.emplace_back(move(result));
\* needReset = false;
DrainTest(a, fuel, log, up) ==
  IF up.r.st = "val"
  THEN DrainLoop([up.h EXCEPT ![a].results = Append(@, up.r.v)],
                 a, FALSE, fuel, log \o up.log)
  ELSE Ret(up.h, up.r, log \o up.log)

\* The while (true) of OrderBy::operator()
DrainLoop(h, a, needReset, fuel, log) ==
  DrainTest(a, fuel, log, Pull(h, h[a].previousFunction, needReset, fuel - 1))

\* if (results.empty()) return nullptr;
\* result.swap(results.front()); results.pop_front(); return result;
OrderByFront(h, a, log) ==
  IF h[a].results = <<>> THEN Ret(h, Nil, log)
  ELSE Ret([h EXCEPT ![a].results = Tail(@)], Val(Head(h[a].results)), log)

\* An OrderBy::operator() without the sort
OrderBySortSkipped(a, dr) ==
  IF Aborted(dr.r) THEN dr ELSE OrderByFront(dr.h, a, dr.log)

\* sort(results.begin(), results.end(), ...) after the loop dr. A sort of two
\* or more elements calls the comparer; if that throws, the sort is abandoned
\* with the elements still in the buffer.
OrderBySort(a, dr) ==
  IF Aborted(dr.r) THEN dr
  ELSE IF ComparerFails(dr.h[a].comparer) /\ Len(dr.h[a].results) >= 2
       THEN Ret(dr.h, Thrown, dr.log)
       ELSE OrderByFront([dr.h EXCEPT
                            ![a].results = SortBy(@, dr.h[a].comparer)],
                         a, dr.log)

\* if (!processed) { ... }; processed is read and reset in operator() and set
\* nowhere.
OrderByDrain(h, a, reset, fuel) ==
  IF ~h[a].processed THEN OrderBySort(a, DrainLoop(h, a, reset, fuel, <<>>))
  ELSE OrderByFront(h, a, <<>>)

\* OrderBy::operator(): if (reset) { processed = false; results.clear(); } ...
OrderByPull(h, a, reset, fuel) ==
  OrderByDrain(IF reset
               THEN [h EXCEPT ![a].processed = FALSE, ![a].results = <<>>]
               ELSE h,
               a, reset, fuel)

\* Composer::Iterate::operator()
IteratePull(h, a, reset, fuel) ==
  IF h[a].rest = <<>> THEN Ret(h, Nil, <<>>)
  ELSE Ret([h EXCEPT ![a].rest = Tail(@)], Val(Head(h[a].rest)), <<>>)

\* Composer::operator()
ComposerPull(h, a, reset, fuel) == Pull(h, h[a].first, reset, fuel - 1)

\* The call of stage a has returned res: the pull log gets its entry.
Logged(a, reset, res) ==
  [res EXCEPT !.log = Append(@, Event(a, reset, res.r))]

\* The virtual operator() of the object at a
Dispatch(h, a, reset, fuel) ==
  CASE h[a].kind = "Select" -> SelectPull(h, a, reset, fuel)
    [] h[a].kind = "Where" -> WherePull(h, a, reset, fuel)
    [] h[a].kind = "Take" -> TakePull(h, a, reset, fuel)
    [] h[a].kind = "OrderBy" -> OrderByPull(h, a, reset, fuel)
    [] h[a].kind = "Iterate" -> IteratePull(h, a, reset, fuel)
    [] h[a].kind = "Composer" -> ComposerPull(h, a, reset, fuel)

\* ptr->operator()(reset). A null ptr is a call through nullptr; fuel is the
\* number of objects of the heap plus one, so that it runs out only if the
\* chain of calls revisits a stage.
Pull(h, a, reset, fuel) ==
  IF a = Null THEN Ret(h, Segv, <<>>)
  ELSE IF fuel = 0 THEN Ret(h, Loop, <<>>)
       ELSE Logged(a, reset, Dispatch(h, a, reset, fuel))

Fuel(h) == Cardinality(DOMAIN h) + 1

\* ------------------------------------------------------ Composer, private
RECURSIVE ProcessLoop(_, _, _, _, _)

\* A processAll that puts each element in front: results.emplace(begin, ..)
ProcessTestFront(first, results, log, p) ==
  IF p.r.st = "val"
  THEN ProcessLoop(p.h, first, FALSE, <<p.r.v>> \o results, log \o p.log)
  ELSE [h |-> p.h, r |-> p.r, results |-> results, log |-> log \o p.log]

\* if (result == nullptr) break; results.emplace_back(move(*result));
\* reset = false;
ProcessTest(first, results, log, p) ==
  IF p.r.st = "val"
  THEN ProcessLoop(p.h, first, FALSE, Append(results, p.r.v), log \o p.log)
  ELSE [h |-> p.h, r |-> p.r, results |-> results, log |-> log \o p.log]

\* The while (true) of Composer::processAll
ProcessLoop(h, first, reset, results, log) ==
  ProcessTest(first, results, log, Pull(h, first, reset, Fuel(h)))

\* Composer::processAll
ProcessAll(h, first) == ProcessLoop(h, first, TRUE, <<>>, <<>>)

\* last->setPreviousFunction(make_shared<Iterate>(values))
Attach(h, c, values, it) == SetPrev(Alloc(h, it, NewIterate(values)), c.last, it)

\* A preprocess that returns without last->setPreviousFunction(base)
DetachSkipped(c, base, pa) == pa

\* last->setPreviousFunction(base); return result; (not reached when the pull
\* loop did not end with nullptr)
Detach(c, base, pa) ==
  IF Aborted(pa.r) THEN pa ELSE [pa EXCEPT !.h = SetPrev(@, c.last, base)]

\* Composer::preprocess on a composer whose last is not null: the heap after
\* the call, the vector returned, how the pull loop ended and the pull log.
Preprocess(h, c, values) ==
  Detach(c, GetPrev(h, c.last),
         ProcessAll(Attach(h, c, values, NewAddr(h)), c.first))

\* ---------------------------------------------------------------- deepCopy
RECURSIVE DeepCopy(_, _, _)

\* copy->previousFunction = previousFunction->deepCopy(), d being the copy of
\* the upstream chain and n the copy
CopyLink(n, d) ==
  [h |-> [d.h EXCEPT ![n].previousFunction = d.a], a |-> n, ok |-> d.ok]

\* The body shared by Select/Where/Take/OrderBy::deepCopy: make_shared of a
\* newly constructed stage at n, then the copy of previousFunction if there is
\* one.
CopyStage(h, a, fresh, fuel, n) ==
  IF h[a].previousFunction = Null
  THEN [h |-> Alloc(h, n, fresh), a |-> n, ok |-> TRUE]
  ELSE CopyLink(n, DeepCopy(Alloc(h, n, fresh), h[a].previousFunction,
                            fuel - 1))

\* Select::deepCopy
SelectDeepCopy(h, a, fuel) ==
  CopyStage(h, a, NewSelect(h[a].updater), fuel, NewAddr(h))

\* Where::deepCopy
WhereDeepCopy(h, a, fuel) ==
  CopyStage(h, a, NewWhere(h[a].checker), fuel, NewAddr(h))

\* A Take::deepCopy that copies the counter too: copy->remaining = remaining;
TakeDeepCopyRemaining(h, a, fuel) ==
  CopyStage(h, a, [NewTake(h[a].capacity) EXCEPT !.remaining = h[a].remaining],
            fuel, NewAddr(h))

\* Take::deepCopy
TakeDeepCopy(h, a, fuel) ==
  CopyStage(h, a, NewTake(h[a].capacity), fuel, NewAddr(h))

\* OrderBy::deepCopy
OrderByDeepCopy(h, a, fuel) ==
  CopyStage(h, a, NewOrderBy(h[a].comparer), fuel, NewAddr(h))

\* Composer::Iterate::deepCopy: make_shared<Iterate>(*this)
IterateDeepCopy(h, a, fuel) ==
  [h |-> Alloc(h, NewAddr(h), h[a]), a |-> NewAddr(h), ok |-> TRUE]

RECURSIVE WalkLast(_, _, _)
\* while (copy->last->getPreviousFunction())
\*   copy->last = copy->last->getPreviousFunction();
WalkLast(h, a, fuel) ==
  IF fuel = 0 THEN Null
  ELSE IF GetPrev(h, a) = Null THEN a
       ELSE WalkLast(h, GetPrev(h, a), fuel - 1)

\* copy->last = copy->first = first->deepCopy(), d being that copy, and the
\* walk to the last stage l
CopyEnds(d, l) ==
  [h |-> d.h, first |-> d.a, last |-> l, ok |-> d.ok /\ l # Null]

CopyWalk(d) == CopyEnds(d, WalkLast(d.h, d.a, Fuel(d.h)))

\* The if (first) of Composer::deepCopy, for a composer with the fields c: the
\* heap with the copied chain and the copy's first and last.
CopyChain(h, c, fuel) ==
  IF c.first = Null
  THEN [h |-> h, first |-> Null, last |-> Null, ok |-> TRUE]
  ELSE CopyWalk(DeepCopy(h, c.first, fuel))

\* auto copy = make_shared<Composer<T>>() at n, d being the copied chain
CopyHolder(n, d) ==
  [h |-> [d.h EXCEPT ![n] = NewComposer(d.first, d.last)],
   a |-> n, ok |-> d.ok]

\* Composer::deepCopy of a composer that is a stage of a chain
ComposerDeepCopy(h, a, fuel) ==
  CopyHolder(NewAddr(h),
             CopyChain(Alloc(h, NewAddr(h), NewComposer(Null, Null)), h[a],
                       fuel - 1))

\* ptr->deepCopy(): the virtual call; ok is FALSE if the copy revisits a stage
\* and so never ends.
DeepCopy(h, a, fuel) ==
  IF fuel = 0 THEN [h |-> h, a |-> Null, ok |-> FALSE]
  ELSE CASE h[a].kind = "Select" -> SelectDeepCopy(h, a, fuel)
         [] h[a].kind = "Where" -> WhereDeepCopy(h, a, fuel)
         [] h[a].kind = "Take" -> TakeDeepCopy(h, a, fuel)
         [] h[a].kind = "OrderBy" -> OrderByDeepCopy(h, a, fuel)
         [] h[a].kind = "Iterate" -> IterateDeepCopy(h, a, fuel)
         [] h[a].kind = "Composer" -> ComposerDeepCopy(h, a, fuel)

\* A copy that takes the pointers of the other composer: first = other.first;
\* last = other.last;
ShareChain(h, c) == [h |-> h, first |-> c.first, last |-> c.last, ok |-> TRUE]

\* Composer(const Composer &) and operator=(const Composer &): deepCopy, then
\* first and last are moved out of the copy.
CopyComposer(h, c) == CopyChain(h, c, Fuel(h))

\* ---------------------------------------------------- shared_ptr ownership
\* The Composer<int> variables of the caller, in the order of declaration, and
\* its Compose<int> variable composed, which has a first and a last as well.
CompOrder == <<"com", "com1", "com2", "com3", "composed">>
Comps == {CompOrder[i] : i \in DOMAIN CompOrder}

InSeq(a, s) == \E i \in DOMAIN s : s[i] = a

RECURSIVE Visit(_, _, _)
\* The objects held, directly or through other objects, by the pointer a, added
\* to seen in the order they are met.
Visit(h, a, seen) ==
  IF a = Null \/ a \notin DOMAIN h \/ InSeq(a, seen) THEN seen
  ELSE IF h[a].kind = "Composer"
       THEN Visit(h, h[a].last, Visit(h, h[a].first, Append(seen, a)))
       ELSE IF h[a].kind = "Iterate" THEN Append(seen, a)
            ELSE Visit(h, h[a].previousFunction, Append(seen, a))

RECURSIVE VisitAll(_, _, _, _)
VisitAll(h, cs, i, seen) ==
  IF i > Len(CompOrder) THEN seen
  ELSE VisitAll(h, cs, i + 1,
                Visit(h, cs[CompOrder[i]].last,
                      Visit(h, cs[CompOrder[i]].first, seen)))

\* The objects some shared_ptr still holds.
Live(h, cs) == VisitAll(h, cs, 1, <<>>)

\* Where address a moves to when the live objects are numbered in the order
\* live: an address is only ever compared with nullptr, so the numbering
\* carries no meaning.
Moved(live, a) ==
  IF a = Null \/ ~InSeq(a, live) THEN Null
  ELSE CHOOSE i \in DOMAIN live : live[i] = a

MovedObject(live, o) ==
  IF o.kind = "Composer"
  THEN [o EXCEPT !.first = Moved(live, @), !.last = Moved(live, @)]
  ELSE IF o.kind = "Iterate" THEN o
       ELSE [o EXCEPT !.previousFunction = Moved(live, @)]

Compact(h, cs, lg, live) ==
  [h |-> [i \in DOMAIN live |-> MovedObject(live, h[live[i]])],
   cs |-> [c \in DOMAIN cs |-> [first |-> Moved(live, cs[c].first),
                                last |-> Moved(live, cs[c].last)]],
   log |-> [i \in DOMAIN lg |-> [lg[i] EXCEPT !.s = Moved(live, @)]]]

\* An object no shared_ptr holds any more is destroyed: the heap, the
\* composers and the pull log lg once the objects that h and cs no longer hold
\* are gone.
Release(h, cs, lg) == Compact(h, cs, lg, Live(h, cs))

\* ------------------------------------------------------------------ state
VARIABLES
  heap,   \* the stage objects: address -> object
  comp,   \* each Composer variable's first and last
  op,     \* the call made last
  out,    \* the vector the last ToList returned
  log,    \* the pulls of the last ToList, in the order they returned
  fault,  \* "none", or "nullptr" once a call went through a null shared_ptr
  copied, \* the pairs of variables one of which was copied from the other
  pc,     \* main(): the statement to execute next and the vector in
  steps,  \* the steps composed was constructed from, the first one first
  run     \* the ToList call in progress, for a caller that is followed
          \* through the iterations of processAll

vars == <<heap, comp, op, out, log, fault, copied, pc, steps, run>>

EmptyHeap == [a \in {} |-> Nil]

\* Composer() : first(nullptr), last(nullptr)
EmptyComposer == [first |-> Null, last |-> Null]

NoOp ==
  [name |-> "none", c |-> "", fn |-> "", n |-> 0, src |-> "", values |-> <<>>,
   stale |-> FALSE, outcome |-> "ok"]

Call(name, c) == [NoOp EXCEPT !.name = name, !.c = c]

\* What a call through a null shared_ptr may do: the behaviour is undefined;
\* the process is killed, or the call returns with some vector.
UBOutcomes == {"segv", "returned"}
UBVectors == {<<>>, <<0>>}

\* No ToList call is in progress.
NoRun ==
  [active |-> FALSE, c |-> "", values |-> <<>>, base |-> Null,
   results |-> <<>>, reset |-> FALSE, log |-> <<>>, stale |-> FALSE]

\* A caller that is not main() has no program text to move through.
NoProgram == [at |-> 0, in |-> <<>>]

Init ==
  /\ heap = EmptyHeap
  /\ comp = [c \in Comps |-> EmptyComposer]
  /\ op = NoOp
  /\ out = <<>>
  /\ log = <<>>
  /\ fault = "none"
  /\ copied = {}
  /\ pc = NoProgram
  /\ steps = <<>>
  /\ run = NoRun

\* The run state a newly constructed stage has: Take(capacity) sets remaining
\* to capacity, OrderBy(comparer) sets processed to false and leaves results
\* empty.
FreshStage(o) ==
  IF o.kind = "Take" THEN [o EXCEPT !.remaining = o.capacity]
  ELSE IF o.kind = "OrderBy"
       THEN [o EXCEPT !.processed = FALSE, !.results = <<>>]
       ELSE o

\* The stages the composer with the fields c holds.
StagesOf(h, c) ==
  {Visit(h, c.last, Visit(h, c.first, <<>>))[i] :
     i \in DOMAIN Visit(h, c.last, Visit(h, c.first, <<>>))}

\* Some stage of c carries run state an earlier run left.
Stale(h, c) == \E a \in StagesOf(h, c) : h[a] # FreshStage(h[a])

\* ---------------------------------------------------- Composer, public
\* The caller goes on to its next statement.
Advance == IF pc.at = 0 THEN pc ELSE [pc EXCEPT !.at = @ + 1]

\* The call leaves the heap and the composers of z (what Release returned).
Committed(z, call, o) ==
  /\ heap' = z.h
  /\ comp' = z.cs
  /\ log' = z.log
  /\ op' = call
  /\ out' = o
  /\ copied' = IF call.name = "copy" /\ call.c # call.src
               THEN copied \cup {{call.c, call.src}}
               ELSE copied
  /\ pc' = Advance
  /\ UNCHANGED <<fault, steps>>

\* A call that is made and returns in one step.
Done(z, call, o) == Committed(z, call, o) /\ UNCHANGED run

\* The call went through a null shared_ptr: the behaviour is undefined.
Undefined(call) ==
  /\ fault' = "nullptr"
  /\ \E u \in UBOutcomes : op' = [call EXCEPT !.outcome = u]
  /\ out' \in UBVectors
  /\ log' = <<>>
  /\ UNCHANGED <<heap, comp, copied, pc, steps, run>>

\* An append that makes the new stage n its own upstream:
\* temp->setPreviousFunction(temp); first = temp;
LinkToItself(h, cs, c, n) ==
  [h |-> SetPrev(h, n, n),
   cs |-> [cs EXCEPT ![c] = [first |-> n,
                             last |-> IF @.last = Null THEN n ELSE @.last]]]

\* An append that hangs the new stage n at the source end of the chain:
\* last->setPreviousFunction(temp); last = temp;
LinkAtSource(h, cs, c, n) ==
  IF cs[c].last = Null
  THEN [h |-> h, cs |-> [cs EXCEPT ![c] = [first |-> n, last |-> n]]]
  ELSE [h |-> SetPrev(h, cs[c].last, n),
        cs |-> [cs EXCEPT ![c] = [first |-> @.first, last |-> n]]]

\* The tail of Composer::append once temp holds the new stage n:
\* temp->setPreviousFunction(first); first = temp;
\* if (last == nullptr) last = first;
Link(h, cs, c, n) ==
  [h |-> SetPrev(h, n, cs[c].first),
   cs |-> [cs EXCEPT ![c] = [first |-> n,
                             last |-> IF @.last = Null THEN n ELSE @.last]]]

\* Composer::append(F func) for a stage: make_shared<F>(move(func)), then Link.
AppendStage(h, cs, c, o) == Link(Alloc(h, NewAddr(h), o), cs, c, NewAddr(h))

Released(r) == Release(r.h, r.cs, <<>>)

\* The call c.append(stage) / c.Select(..) / c.Where(..) / c.Take(..) /
\* c.OrderBy(..) with the stage object o.
DoAppend(c, o, call) ==
  /\ fault = "none"
  /\ Done(Released(AppendStage(heap, comp, c, o)), call, <<>>)

\* Composer::Select
Select(c, f) == DoAppend(c, NewSelect(f), [Call("Select", c) EXCEPT !.fn = f])

\* Composer::Where
Where(c, f) == DoAppend(c, NewWhere(f), [Call("Where", c) EXCEPT !.fn = f])

\* The argument n of Composer::Take(n), an int, bound to the parameter
\* const size_t &capacity of Take's constructor: the conversion to the
\* unsigned type takes n modulo 2^SizeBits, and nothing tests the sign before.
ToSizeT(n) == n % (2 ^ SizeBits)

\* Composer::Take
Take(c, n) ==
  DoAppend(c, NewTake(ToSizeT(n)), [Call("Take", c) EXCEPT !.n = n])

\* Composer::OrderBy
OrderBy(c, f) ==
  DoAppend(c, NewOrderBy(f), [Call("OrderBy", c) EXCEPT !.fn = f])

\* shared_ptr<Functor<T>> temp = make_shared<F>(move(func)) for F = Composer<T>:
\* the heap with temp, at address n, holding the chain d of func.
Temp(d, n) ==
  [h |-> Alloc(d.h, n, NewComposer(d.first, d.last)), a |-> n, ok |-> d.ok]

\* Composer::append once temp is made: temp->setPreviousFunction(first) calls
\* last->setPreviousFunction on temp, a call through nullptr if func was empty.
AppendTemp(c, t, call) ==
  IF HasTail(t.h, t.a) /\ t.ok
  THEN Done(Released(Link(t.h, comp, c, t.a)), call, <<>>)
  ELSE Undefined(call)

\* An append that takes its argument by reference, append(F &func), and keeps
\* the chain of the argument itself in temp
AppendByReference(c, d, call) ==
  AppendTemp(c, Temp([h |-> heap, first |-> comp[call.src].first,
                      last |-> comp[call.src].last, ok |-> TRUE],
                     NewAddr(heap)), call)

\* func, the by-value parameter of append, copy-constructed from the argument
AppendCopy(c, d, call) == AppendTemp(c, Temp(d, NewAddr(d.h)), call)

\* Composer::append(F func) with F = Composer<T>, the argument being the
\* variable s.
AppendComposer(c, s) ==
  /\ fault = "none"
  /\ AppendCopy(c, CopyComposer(heap, comp[s]),
                [Call("append", c) EXCEPT !.src = s])

\* first = move(copy->first); last = move(copy->last);
MoveIn(c, d) ==
  Release(d.h, [comp EXCEPT ![c] = [first |-> d.first, last |-> d.last]], <<>>)

\* A member-wise copy, as a defaulted copy constructor makes it:
\* first = other.first; last = other.last;
AssignShallow(c, d, call) ==
  Done(Release(heap, [comp EXCEPT ![c] = comp[call.src]], <<>>), call, <<>>)

AssignCopy(c, d, call) == d.ok /\ Done(MoveIn(c, d), call, <<>>)

\* Composer<T> c = s; and c = s;
Assign(c, s) ==
  /\ fault = "none"
  /\ AssignCopy(c, CopyComposer(heap, comp[s]),
                [Call("copy", c) EXCEPT !.src = s])

\* Composer::clear
Clear(c) ==
  /\ fault = "none"
  /\ Done(Release(heap, [comp EXCEPT ![c] = EmptyComposer], <<>>),
          Call("clear", c), <<>>)

\* A ToList that hands the caller what processAll had collected when the
\* exception came: catch (...) { return results; }
DeliveredPartial(r) == r.results

\* What the caller of ToList receives: the vector of processAll's
\* return results; and nothing when an exception passes through processAll,
\* preprocess and ToList, none of which catches.
Delivered(r) == IF r.r.st = "null" THEN r.results ELSE <<>>

\* ToList once preprocess has returned, or has been left by an exception, r
Returned(r, call) ==
  Done(Release(r.h, comp, r.log), [call EXCEPT !.outcome = r.r.st],
       Delivered(r))

\* Composer::ToList(values): preprocess(values). With last == nullptr the first
\* statement, last->getPreviousFunction(), is a call through nullptr.
ToList(c, values) ==
  /\ fault = "none"
  /\ IF HasTail(heap, comp[c].last)
     THEN Returned(Preprocess(heap, comp[c], values),
                   [Call("ToList", c) EXCEPT !.values = values,
                                             !.stale = Stale(heap, comp[c])])
     ELSE Undefined([Call("ToList", c) EXCEPT !.values = values])

\* -------------------------------------------------------------- the callers
Updaters == {"addOne"}
Checkers == {"greater5"}
Comparers == {"comparer", "less"}
Capacities == 0..MaxCap

\* The vectors the callers hand to ToList.
RunInputs == {<<6, 5, 7>>, <<5, 7, 5>>}

\* The callers stay within MaxObj stage objects.
Within == Cardinality(DOMAIN heap') <= MaxObj

Two == {"com", "com1"}

\* A caller with two Composer variables that builds chains of Select, Take and
\* OrderBy stages, copies and appends the composers, clears and runs them.
Next ==
  \E c \in Two :
    \/ \E f \in Updaters : Select(c, f) /\ Within
    \/ Take(c, 1) /\ Within
    \/ OrderBy(c, "comparer") /\ Within
    \/ \E s \in Two : AppendComposer(c, s) /\ Within
    \/ \E s \in Two : Assign(c, s) /\ Within
    \/ Clear(c)
    \/ ToList(c, <<6, 5, 7>>)

Spec == Init /\ [][Next]_vars

\* A caller that uses the one variable com with every stage kind, and copies
\* and appends com to itself.
NextRun ==
  \/ \E f \in Updaters : Select("com", f) /\ Within
  \/ \E f \in Checkers : Where("com", f) /\ Within
  \/ \E n \in Capacities : Take("com", n) /\ Within
  \/ \E f \in Comparers : OrderBy("com", f) /\ Within
  \/ AppendComposer("com", "com") /\ Within
  \/ Assign("com", "com") /\ Within
  \/ Clear("com")
  \/ \E values \in RunInputs : ToList("com", values)

SpecRun == Init /\ [][NextRun]_vars

\* A caller that builds chains in com with callables that may throw, and runs
\* and clears them; it goes on after an exception.
NextFail ==
  \/ Select("com", "addOne") /\ Within
  \/ Select("com", "failing") /\ Within
  \/ Where("com", "failing") /\ Within
  \/ Take("com", 1) /\ Within
  \/ OrderBy("com", "failing") /\ Within
  \/ Clear("com")
  \/ \E values \in RunInputs : ToList("com", values)

SpecFail == Init /\ [][NextFail]_vars

\* The ints the caller of SpecCapacity hands to Take.
IntCapacities == -1..1

\* A caller that hands Take negative as well as other ints, between Select
\* stages, and runs and clears the composer.
NextCapacity ==
  \/ Select("com", "addOne") /\ Within
  \/ \E n \in IntCapacities : Take("com", n) /\ Within
  \/ Clear("com")
  \/ \E values \in RunInputs : ToList("com", values)

SpecCapacity == Init /\ [][NextCapacity]_vars

\* ------------------------------------------ ToList, iteration by iteration
\* Composer::ToList(values) up to the loop of processAll:
\* auto base = last->getPreviousFunction();
\* last->setPreviousFunction(make_shared<Iterate>(values));
\* vector<T> results; bool reset = true;
Begin(c, values) ==
  /\ fault = "none"
  /\ ~run.active
  /\ IF HasTail(heap, comp[c].last)
     THEN /\ heap' = Attach(heap, comp[c], values, NewAddr(heap))
          /\ run' = [active |-> TRUE, c |-> c, values |-> values,
                     base |-> GetPrev(heap, comp[c].last),
                     results |-> <<>>, reset |-> TRUE, log |-> <<>>,
                     stale |-> Stale(heap, comp[c])]
          /\ UNCHANGED <<comp, op, out, log, fault, copied, pc, steps>>
     ELSE Undefined([Call("ToList", c) EXCEPT !.values = values])

\* if (result == nullptr) break; and the return of processAll, preprocess and
\* ToList: last->setPreviousFunction(base); return result;
Return(p) ==
  /\ Committed(Release(SetPrev(p.h, comp[run.c].last, run.base), comp,
                       run.log \o p.log),
               [Call("ToList", run.c) EXCEPT !.values = run.values,
                                             !.stale = run.stale,
                                             !.outcome = "null"],
               run.results)
  /\ run' = NoRun

\* results.emplace_back(move(*result)); reset = false;
Collect(p) ==
  /\ heap' = p.h
  /\ run' = [run EXCEPT !.results = Append(@, p.r.v), !.reset = FALSE,
                        !.log = @ \o p.log]
  /\ UNCHANGED <<comp, op, out, log, fault, copied, pc, steps>>

\* One iteration of the while (true) of processAll, p being what
\* first->operator()(reset) returned. A pull that does not come back leaves
\* the caller inside the call for ever.
Iteration(p) ==
  IF p.r.st = "val" THEN Collect(p)
  ELSE IF p.r.st = "null" THEN Return(p)
       ELSE UNCHANGED vars

\* auto result = first->operator()(reset); and the rest of the loop body
Step ==
  /\ run.active
  /\ Iteration(Pull(heap, comp[run.c].first, run.reset, Fuel(heap)))

\* The pull of the iteration that is due does not come back.
Hangs ==
  /\ run.active
  /\ Aborted(Pull(heap, comp[run.c].first, run.reset, Fuel(heap)).r)

\* The thread inside ToList keeps executing: whenever the loop can take its
\* next iteration it does. This is WF_vars(Step) with ENABLED <<Step>>_vars
\* written out as run.active /\ ~Hangs.
Progress == []<>(~run.active \/ Hangs) \/ []<><<Step>>_vars

\* The caller of SpecSteps makes no other call while ToList is running.
Idle == ~run.active

\* A caller that builds chains of every stage kind in com, appends com to
\* itself, copies and clears it, and calls ToList, which is followed through
\* its loop; the loop goes on to its next iteration when it can.
NextSteps ==
  \/ Idle /\ Select("com", "addOne") /\ Within
  \/ Idle /\ Where("com", "greater5") /\ Within
  \/ Idle /\ Take("com", 1) /\ Within
  \/ Idle /\ OrderBy("com", "comparer") /\ Within
  \/ Idle /\ AppendComposer("com", "com") /\ Within
  \/ Idle /\ Assign("com", "com") /\ Within
  \/ Idle /\ Clear("com")
  \/ \E values \in RunInputs : Begin("com", values)
  \/ Step

SpecSteps == Init /\ [][NextSteps]_vars /\ Progress

\* ----------------------------------------------------------------- Compose
\* Compose::compose(F &&finalStep): first = make_unique<FPure>(move(finalStep));
\* return first;
ComposeFinal(h, n, step) == [h |-> Alloc(h, n, step), first |-> n, ret |-> n]

\* A compose that hangs result under the final step instead of under the step
\* that follows it: first->setPreviousFunction(result)
ComposeLinkFirst(result, rest) ==
  [h |-> SetPrev(rest.h, rest.first, result), first |-> rest.first,
   ret |-> result]

\* compose(move(others)...)->setPreviousFunction(result); return result;
\* rest being what compose(move(others)...) left and returned
ComposeLink(result, rest) ==
  [h |-> SetPrev(rest.h, rest.ret, result), first |-> rest.first,
   ret |-> result]

RECURSIVE compose(_, _)
\* Compose::compose(F &&step, ARGS &&...others), and the overload for one step:
\* the heap, the field first and the pointer returned.
compose(h, args) ==
  IF Len(args) = 1 THEN ComposeFinal(h, NewAddr(h), args[1])
  ELSE ComposeLink(NewAddr(h),
                   compose(Alloc(h, NewAddr(h), Head(args)), Tail(args)))

\* Compose(ARGS &&...args) { last = compose(args...); }
Constructed(c, made) ==
  Release(made.h, [comp EXCEPT ![c] = [first |-> made.first,
                                       last |-> made.ret]], <<>>)

\* auto composed = Compose<int>(args...), once, with at least one step
Compose(args) ==
  /\ fault = "none"
  /\ comp["composed"] = EmptyComposer
  /\ heap' = Constructed("composed", compose(heap, args)).h
  /\ comp' = Constructed("composed", compose(heap, args)).cs
  /\ steps' = args
  /\ op' = Call("Compose", "composed")
  /\ out' = <<>>
  /\ log' = <<>>
  /\ pc' = Advance
  /\ UNCHANGED <<fault, copied, run>>

\* The end of Compose::processAll: last->setPreviousFunction(nullptr);
\* return results; (not reached when the pull loop did not end with nullptr)
ComposeDetach(c, pa) ==
  IF Aborted(pa.r) THEN pa ELSE [pa EXCEPT !.h = SetPrev(@, c.last, Null)]

\* Compose::operator()(values):
\* last->setPreviousFunction(make_shared<IterateFunc>(values));
\* return processAll();
ComposeRun(h, c, values) ==
  ComposeDetach(c, ProcessAll(Attach(h, c, values, NewAddr(h)), c.first))

\* composed(values) and composed.ToList(values)
ComposeCall(values) ==
  /\ fault = "none"
  /\ comp["composed"] # EmptyComposer
  /\ Returned(ComposeRun(heap, comp["composed"], values),
              [Call("operator()", "composed")
                 EXCEPT !.values = values,
                        !.stale = Stale(heap, comp["composed"])])

\* The stages a caller constructs to hand them over: Select(updater),
\* Where(checker), Take(capacity), OrderBy(comparer).
PreBuilt ==
  {NewSelect(f) : f \in Updaters} \cup {NewWhere(f) : f \in Checkers}
    \cup {NewTake(n) : n \in Capacities}
    \cup {NewOrderBy(f) : f \in Comparers}

\* The lists of one to MaxSteps stages.
StepLists == UNION {[1..k -> PreBuilt] : k \in 1..MaxSteps}

\* A caller that constructs composed from a list of stages and calls it again
\* and again.
NextCompose ==
  \/ \E args \in StepLists : Compose(args)
  \/ \E values \in RunInputs : ComposeCall(values)

SpecCompose == Init /\ [][NextCompose]_vars

\* ------------------------------------------------------------------ main()
\* auto in = {1, 2, 3, 4, 5, 6, 7, 8, 9, 10};
In == <<1, 2, 3, 4, 5, 6, 7, 8, 9, 10>>

\* The vectors main() is run with: in, and in cut short.
MainInputs == {SubSeq(In, 1, n) : n \in 0..Len(In)}

InitMain ==
  /\ heap = EmptyHeap
  /\ comp = [c \in Comps |-> EmptyComposer]
  /\ op = NoOp
  /\ out = <<>>
  /\ log = <<>>
  /\ fault = "none"
  /\ copied = {}
  /\ pc \in [at : {1}, in : MainInputs]
  /\ steps = <<>>
  /\ run = NoRun

\* The statements of main() from Pipeline::Composer<int> com; to return 0;
NextMain ==
  \/ pc.at = 1 /\ Select("com", "addOne")
  \/ pc.at = 2 /\ Select("com", "square")
  \/ pc.at = 3 /\ Select("com", "subtract10")
  \/ pc.at = 4 /\ Where("com", "greater5")
  \/ pc.at = 5 /\ Take("com", 5)
  \/ pc.at = 6 /\ OrderBy("com", "comparer")
  \/ pc.at = 7 /\ Take("com", 2)
  \/ pc.at = 8 /\ OrderBy("com", "less")
  \/ pc.at = 9 /\ ToList("com", pc.in)
  \/ pc.at = 10 /\ Clear("com")
  \/ pc.at \in 11..13 /\ Select("com", "addOne")
  \/ pc.at = 14 /\ Assign("com1", "com")
  \/ pc.at = 15 /\ Assign("com2", "com")
  \/ pc.at \in 16..17 /\ Select("com1", "addOne")
  \/ pc.at = 18 /\ Select("com2", "subtract10")
  \/ pc.at = 19 /\ ToList("com", <<1>>)
  \/ pc.at = 20 /\ ToList("com1", <<1>>)
  \/ pc.at = 21 /\ ToList("com2", <<1>>)
  \/ pc.at = 22 /\ AppendComposer("com1", "com")
  \/ pc.at = 23 /\ AppendComposer("com", "com")
  \/ pc.at = 24 /\ Assign("com3", "com")
  \/ pc.at = 25 /\ ToList("com3", <<1>>)

SpecMain == InitMain /\ [][NextMain]_vars

\* -------------------------------------------------------------- properties
\* The vectors the properties run a composer on.
TestInputs == RunInputs \cup {<<>>}

Run(r) == [st |-> r.r.st, results |-> r.results]

\* What c.ToList(x) returns from the heap h: how the pull loop ends and the
\* vector. A composer without a tail stage has no defined result.
RunOf(h, c, x) ==
  IF HasTail(h, c.last) THEN Run(Preprocess(h, c, x))
  ELSE [st |-> "undefined", results |-> <<>>]

\* The heap h with every stage's run state as its constructor leaves it: the
\* links, the capacities and the callables alone.
Structure(h) == [a \in DOMAIN h |-> FreshStage(h[a])]

Kinds(h) == {h[a].kind : a \in DOMAIN h}

RECURSIVE ValuesOf(_, _)
\* The elements stage s returned during the run with the pull log lg.
ValuesOf(lg, s) ==
  IF lg = <<>> THEN <<>>
  ELSE (IF Head(lg).s = s /\ Head(lg).r.st = "val" THEN <<Head(lg).r.v>>
        ELSE <<>>) \o ValuesOf(Tail(lg), s)

\* Stage s returned nullptr during the run with the pull log lg.
Ended(lg, s) == \E i \in DOMAIN lg : lg[i].s = s /\ lg[i].r = Nil

FirstN(s, n) == SubSeq(s, 1, IF Len(s) < n THEN Len(s) ELSE n)

\* What the chain of composer c upstream of its head stage t returns for x:
\* x itself if t is the only stage.
UpstreamRun(h, c, t, x) ==
  IF h[t].previousFunction = Null THEN x
  ELSE RunOf(h, [first |-> h[t].previousFunction, last |-> c.last], x).results

AppendStyle == {"Select", "Where", "Take", "OrderBy", "append"}

C1_Frame(b) ==
  (/\ op'.name \in AppendStyle \cup {"clear"}
   /\ fault' = "none"
   /\ op'.c # b
   /\ {op'.c, b} \in copied)
  => \A x \in TestInputs : RunOf(heap', comp'[b], x) = RunOf(heap, comp[b], x)

\* C1: once one of two Composer variables has been copy-constructed or
\* copy-assigned from the other, a Select, Where, Take, OrderBy, append or
\* clear call on either leaves what ToList of the other returns, for every
\* input, as it was.
C1_CloneIndependence == [][\A b \in Two : C1_Frame(b)]_vars

\* A stage was appended to one of two composers related by a copy, the other
\* is runnable and the two now return different vectors.
C1_Witness ==
  \E b \in Two :
    /\ op.name \in AppendStyle
    /\ fault = "none"
    /\ op.c # b
    /\ {op.c, b} \in copied
    /\ HasTail(heap, comp[b].last)
    /\ RunOf(heap, comp[b], <<6, 5, 7>>).results
         # RunOf(heap, comp[op.c], <<6, 5, 7>>).results

\* C2: every ToList call, also one on a composer whose Take and OrderBy stages
\* carry the counter and the buffer an earlier run left, returns what the
\* chain with newly constructed run state returns for the same input.
C2_RerunIndependence ==
  [][(op'.name = "ToList" /\ fault' = "none")
     => /\ op'.outcome = "null"
        /\ out' = RunOf(Structure(heap), comp[op'.c], op'.values).results]_vars

\* A ToList on a chain with a Take and an OrderBy whose run state an earlier
\* run had left, returning elements.
C2_Witness ==
  /\ op.name = "ToList"
  /\ fault = "none"
  /\ op.stale
  /\ {"Take", "OrderBy"} \subseteq Kinds(heap)
  /\ out # <<>>

RECURSIVE Transform(_, _, _)
\* The updaters of the Select stages from the source up to stage a, applied to
\* x in that order.
Transform(h, a, x) ==
  IF a = Null THEN x
  ELSE IF h[a].kind = "Select"
       THEN ApplyUpdater(h[a].updater, Transform(h, h[a].previousFunction, x))
       ELSE IF h[a].kind = "Composer" THEN Transform(h, h[a].first, x)
            ELSE Transform(h, h[a].previousFunction, x)

RECURSIVE Embeds(_, _, _, _)
\* o is the sequence of the transforms of a subsequence of v, in v's order.
Embeds(o, v, h, a) ==
  IF o = <<>> THEN TRUE
  ELSE IF v = <<>> THEN FALSE
       ELSE IF Transform(h, a, Head(v)) = Head(o)
            THEN Embeds(Tail(o), Tail(v), h, a)
            ELSE Embeds(o, Tail(v), h, a)

\* C3: the vector ToList returns from a chain without an OrderBy stage is the
\* composed Select transforms of a subsequence of the input, in the input's
\* order.
C3_OrderPreservation ==
  (op.name = "ToList" /\ fault = "none" /\ "OrderBy" \notin Kinds(heap))
  => Embeds(out, op.values, heap, comp[op.c].first)

\* A run of a chain of Select, Where and Take stages that dropped some
\* elements and returned others.
C3_Witness ==
  /\ op.name = "ToList"
  /\ fault = "none"
  /\ Kinds(heap) = {"Select", "Where", "Take"}
  /\ out # <<>>
  /\ Len(out) < Len(op.values)
  /\ out # FirstN(op.values, Len(out))

C4_Stage(t) ==
  /\ Len(ValuesOf(log, t)) <= heap[t].capacity
  /\ ValuesOf(log, t) = ValuesOf(log, heap[t].previousFunction)
  /\ (Ended(log, t) /\ Len(ValuesOf(log, t)) < heap[t].capacity)
       => Ended(log, heap[t].previousFunction)

C4_Head(t) ==
  heap[t].kind = "Take"
  => out = FirstN(UpstreamRun(heap, comp[op.c], t, op.values), heap[t].capacity)

\* C4: in a run every Take stage returns at most capacity elements, they are
\* the elements its upstream returned, in order, and it ends before capacity
\* only when its upstream has ended; the vector of a chain whose head is
\* Take(n) is the first n elements (all, if fewer) of what the chain upstream
\* of it returns. (The source adapter is gone when the run is over: its pulls
\* carry the address Null, which the tail stage's previousFunction holds
\* again.)
C4_LimitCorrectness ==
  (op.name = "ToList" /\ fault = "none")
  => /\ \A t \in DOMAIN heap : heap[t].kind = "Take" => C4_Stage(t)
     /\ C4_Head(comp[op.c].first)

\* A Take(2) at the head whose upstream returned one element and then ended.
C4_Witness ==
  /\ op.name = "ToList"
  /\ fault = "none"
  /\ heap[comp[op.c].first].kind = "Take"
  /\ heap[comp[op.c].first].capacity = 2
  /\ Len(out) = 1
  /\ Ended(log, heap[comp[op.c].first].previousFunction)

SortedBy(s, f) ==
  \A i \in 1..(Len(s) - 1) : ~ApplyComparer(f, s[i + 1], s[i])

Count(s, v) == Cardinality({i \in DOMAIN s : s[i] = v})

SameBag(s, t) ==
  /\ Len(s) = Len(t)
  /\ \A i \in DOMAIN s : Count(s, s[i]) = Count(t, s[i])

\* C5: the vector ToList returns from a chain whose head is OrderBy(cmp) has
\* no adjacent pair (a, b) with cmp(b, a), and has the elements, each as
\* often, of what the chain upstream of that OrderBy returns for the input.
C5_SortCorrectness ==
  (op.name = "ToList" /\ fault = "none"
     /\ heap[comp[op.c].first].kind = "OrderBy")
  => /\ SortedBy(out, heap[comp[op.c].first].comparer)
     /\ SameBag(out, UpstreamRun(heap, comp[op.c], comp[op.c].first,
                                 op.values))

\* A head OrderBy, over other stages, that returned elements in another order
\* than they came in, two of them equal.
C5_Witness ==
  /\ op.name = "ToList"
  /\ fault = "none"
  /\ heap[comp[op.c].first].kind = "OrderBy"
  /\ heap[comp[op.c].first].previousFunction # Null
  /\ Len(out) = 3
  /\ out[2] = out[3]
  /\ out # UpstreamRun(heap, comp[op.c], comp[op.c].first, op.values)

\* In the pull log lg no stage returns an element to a pull with reset = false
\* after it has returned nullptr.
EndsOnce(lg) ==
  \A i \in DOMAIN lg : \A j \in DOMAIN lg :
    (i < j /\ lg[i].s = lg[j].s /\ lg[i].r = Nil /\ ~lg[j].reset)
    => lg[j].r = Nil

\* pa is processAll's pull loop at its end, the source adapter still attached.
C6_Run(pa) ==
  /\ EndsOnce(pa.log)
  /\ \A s \in DOMAIN pa.h :
       Ended(pa.log, s) => Pull(pa.h, s, FALSE, Fuel(pa.h)).r = Nil

\* C6: in every run, a stage of any kind that has returned nullptr returns
\* nullptr to every later pull of the run made with reset = false, and would
\* return nullptr to one more such pull when the run is over.
C6_IdempotentExhaustion ==
  [][(op'.name = "ToList" /\ fault' = "none")
     => C6_Run(ProcessAll(Attach(heap, comp[op'.c], op'.values, NewAddr(heap)),
                          comp[op'.c].first))]_vars

PulledAfterEnd(s) ==
  \E i \in DOMAIN log : \E j \in DOMAIN log :
    i < j /\ log[i].s = s /\ log[j].s = s /\ log[i].r = Nil /\ ~log[j].reset

\* A run in which a Take, an OrderBy and the source adapter were each pulled
\* again after returning nullptr.
C6_Witness ==
  /\ op.name = "ToList"
  /\ fault = "none"
  /\ PulledAfterEnd(Null)
  /\ \E s \in DOMAIN heap : heap[s].kind = "Take" /\ PulledAfterEnd(s)
  /\ \E s \in DOMAIN heap : heap[s].kind = "OrderBy" /\ PulledAfterEnd(s)

\* C7: main()'s chain Select(addOne), Select(square), Select(subtract10),
\* Where(greater5), Take(5), OrderBy(comparer), Take(2), OrderBy(less<int>())
\* returns <<39, 54>> from ToList({1, ..., 10}).
C7_Scenario == (pc.at = 10 /\ pc.in = In) => out = <<39, 54>>

\* main() has run com....ToList(in) with in = {1, ..., 10} and it returned two
\* elements.
C7_Witness ==
  /\ pc.at = 10
  /\ pc.in = In
  /\ op.name = "ToList"
  /\ op.outcome = "null"
  /\ Cardinality(DOMAIN heap) = 8
  /\ Len(out) = 2

\* C7 as the specification states it: the same ToList returns <<43, 58>>.
C7_AsStated == (pc.at = 10 /\ pc.in = In) => out = <<43, 58>>

C8_Copy(c, s) ==
  /\ \A x \in TestInputs :
       /\ RunOf(heap', comp'[c], x) = RunOf(heap, comp[s], x)
       /\ RunOf(heap', comp'[s], x) = RunOf(heap', comp'[c], x)
  /\ \A a \in StagesOf(heap', comp'[c]) : heap'[a] = FreshStage(heap'[a])

\* C8: after c = s (or Composer c = s), ToList of c returns for every input
\* what ToList of s returns and returned before the copy, and every Take of c
\* has remaining = capacity and every OrderBy of c has processed = false and
\* no results.
C8_CopyEquivalence ==
  [][(op'.name = "copy" /\ fault' = "none") => C8_Copy(op'.c, op'.src)]_vars

\* A copy of a composer that holds a Composer as a stage and a Take an earlier
\* run left with remaining # capacity.
C8_Witness ==
  /\ op.name = "copy"
  /\ fault = "none"
  /\ op.c # op.src
  /\ \E a \in StagesOf(heap, comp[op.src]) : heap[a].kind = "Composer"
  /\ \E a \in StagesOf(heap, comp[op.src]) :
       heap[a].kind = "Take" /\ heap[a].remaining # heap[a].capacity
  /\ RunOf(heap, comp[op.c], <<6, 5, 7>>).results # <<>>

\* C9: a ToList that returns leaves first and last of every composer, every
\* stage's previousFunction, every Take's capacity and every callable as they
\* were, and the tail stage without an upstream.
C9_StructureUnchanged ==
  [][(op'.name = "ToList" /\ fault' = "none" /\ op'.outcome = "null")
     => /\ comp' = comp
        /\ Structure(heap') = Structure(heap)
        /\ GetPrev(heap', comp'[op'.c].last) = Null]_vars

\* A ToList has returned elements from a chain of several stages and left run
\* state behind.
C9_Witness ==
  /\ op.name = "ToList"
  /\ fault = "none"
  /\ op.outcome = "null"
  /\ Cardinality(DOMAIN heap) >= 3
  /\ heap # Structure(heap)
  /\ out # <<>>

Threw(lg) == \E i \in DOMAIN lg : lg[i].r = Thrown

\* Once a call has been left by the exception, every call that ends later is
\* left by it too: nothing is pulled again.
NoRetry(lg) ==
  \A i \in DOMAIN lg : \A j \in DOMAIN lg :
    (i < j /\ lg[i].r = Thrown) => (lg[j].r = Thrown /\ lg[j].s # lg[i].s)

\* C11: a ToList run in which a callable throws ends with the exception at the
\* caller (and only such a run does), hands the caller no vector, and pulls no
\* stage again after the exception.
C11_AllOrNothing ==
  (op.name = "ToList" /\ fault = "none")
  => /\ Threw(log) <=> op.outcome = "throw"
     /\ op.outcome \in {"null", "throw"}
     /\ op.outcome = "throw" => (out = <<>> /\ NoRetry(log))

\* A run that had handed elements to processAll when a callable threw.
C11_Witness ==
  /\ op.name = "ToList"
  /\ op.outcome = "throw"
  /\ \E i \in DOMAIN log :
       log[i].s = comp[op.c].first /\ log[i].r.st = "val"
  /\ Cardinality(DOMAIN log) >= 4

RECURSIVE Appended(_, _)
\* The heap and the composers after com.append(s) for each s of args in turn.
Appended(r, args) ==
  IF args = <<>> THEN r
  ELSE Appended(AppendStage(r.h, r.cs, "com", Head(args)), Tail(args))

\* What ToList(x) returns on a Composer that was empty and then got args
\* appended one by one.
ComposerOf(r, x) == RunOf(r.h, r.cs["com"], x)
ByAppends(args, x) ==
  ComposerOf(Appended([h |-> EmptyHeap,
                       cs |-> [c \in Comps |-> EmptyComposer]], args), x)

\* C12: every call of a Compose object constructed from the stages s1..sk, the
\* first call and each later one, returns the vector that ToList returns for
\* the same input on a Composer built by appending s1, then s2, up to sk.
C12_StaticEquivalence ==
  (op.name = "operator()" /\ fault = "none")
  => /\ op.outcome = "null"
     /\ ByAppends(steps, op.values).st = "null"
     /\ out = ByAppends(steps, op.values).results

\* A second call of a Compose object of three steps, a Take and an OrderBy
\* among them, that returns elements.
C12_Witness ==
  /\ op.name = "operator()"
  /\ op.stale
  /\ Len(steps) = 3
  /\ \E i, j \in DOMAIN steps : steps[i].kind = "Take"
                                  /\ steps[j].kind = "OrderBy"
  /\ out # <<>>

RECURSIVE Shape(_, _, _)
\* The stages pulled through from the pointer a on, the one nearest to the
\* caller first, each with its callable, capacity and run state; a Composer
\* stage stands for the stages it holds.
Shape(h, a, fuel) ==
  IF a = Null \/ fuel = 0 \/ h[a].kind = "Iterate" THEN <<>>
  ELSE IF h[a].kind = "Composer" THEN Shape(h, h[a].first, fuel - 1)
       ELSE <<[h[a] EXCEPT !.previousFunction = Null]>>
              \o Shape(h, h[a].previousFunction, fuel - 1)

\* The vector S.ToList(C.ToList(x)) for the composers with the fields cC and
\* cS in the heap h, and whether both calls are defined and return.
Piped(h, cS, first) ==
  IF first.st = "null" THEN RunOf(h, cS, first.results) ELSE first
Concatenated(h, cC, cS, x) == Piped(h, cS, RunOf(h, cC, x))

C13_Step(c, s) ==
  (/\ op'.name = "append" /\ op'.c = c /\ op'.src = s
   /\ fault' = "none"
   /\ HasTail(heap, comp[c].last))
  => /\ \A x \in TestInputs :
          /\ Concatenated(heap, comp[c], comp[s], x).st = "null"
          /\ RunOf(heap', comp'[c], x) = Concatenated(heap, comp[c], comp[s], x)
     /\ s # c => /\ Shape(heap', comp'[s].first, Fuel(heap'))
                     = Shape(heap, comp[s].first, Fuel(heap))
                 /\ \A x \in TestInputs :
                      RunOf(heap', comp'[s], x) = RunOf(heap, comp[s], x)

\* C13: after c.append(s) on a composer c that has stages, with s another
\* composer or c itself, c.ToList(x) returns for every input x what s returned
\* before the call for the vector that c returned before the call for x; a
\* composer s other than c keeps its stages and what it returns.
C13_AppendConcatenates == [][\A c, s \in Two : C13_Step(c, s)]_vars

\* A composer holding a Take or an OrderBy was appended to another composer
\* holding the other kind; the composer appended to now pulls through both
\* and returns elements, the composer appended still has its stage.
C13_Witness ==
  /\ op.name = "append"
  /\ fault = "none"
  /\ op.src # op.c
  /\ HasTail(heap, comp[op.src].last)
  /\ \E a \in DOMAIN heap : heap[a].kind = "Composer"
  /\ \E a \in DOMAIN heap : heap[a].kind = "OrderBy"
  /\ \E a \in DOMAIN heap : heap[a].kind = "Take"
  /\ Len(Shape(heap, comp[op.c].first, Fuel(heap))) >= 2
  /\ RunOf(heap, comp[op.c], <<6, 5, 7>>).results # <<>>

\* The stage that stage a pulls from: a Composer stage pulls from the head of
\* the chain it holds, the source pulls from no stage.
PullsFrom(h, a) ==
  IF h[a].kind = "Composer" THEN h[a].first
  ELSE IF h[a].kind = "Iterate" THEN Null ELSE h[a].previousFunction

RECURSIVE Revisits(_, _, _)
\* Following the upstream links from a meets a stage of seen or a stage twice.
Revisits(h, a, seen) ==
  IF a = Null THEN FALSE
  ELSE IF a \in seen THEN TRUE
       ELSE Revisits(h, PullsFrom(h, a), seen \cup {a})

\* No two stages pull from the same stage, no stage pulls from the head of a
\* composer variable, and no two variables hold the same head.
OneDownstream(h, cs) ==
  /\ \A a, b \in DOMAIN h :
       (a # b /\ PullsFrom(h, a) # Null) => PullsFrom(h, a) # PullsFrom(h, b)
  /\ \A c \in DOMAIN cs : \A a \in DOMAIN h :
       cs[c].first # Null => PullsFrom(h, a) # cs[c].first
  /\ \A c, d \in DOMAIN cs :
       (c # d /\ cs[c].first # Null) => cs[c].first # cs[d].first

\* Every held stage is a stage object, and the tail of a composer is met on
\* the way up from its head.
OneUpstream(h, cs) ==
  /\ \A a \in DOMAIN h : PullsFrom(h, a) \in DOMAIN h \cup {Null}
  /\ \A c \in DOMAIN cs :
       /\ cs[c].first \in DOMAIN h \cup {Null}
       /\ cs[c].first = Null <=> cs[c].last = Null
       /\ cs[c].last # Null => Revisits(h, cs[c].first, {cs[c].last})

\* C14: as long as no call went through a null pointer, after every call
\* (Select, Where, Take, OrderBy, append of a composer also to itself, copy,
\* clear, ToList) the upstream links from the head of each composer never
\* come back to a stage, each stage is pulled by at most one stage and pulls
\* from at most one.
C14_AcyclicChain ==
  fault = "none"
  => /\ \A c \in Comps : ~Revisits(heap, comp[c].first, {})
     /\ \A a \in DOMAIN heap : ~Revisits(heap, PullsFrom(heap, a), {a})
     /\ OneDownstream(heap, comp)
     /\ OneUpstream(heap, comp)

\* A composer that was appended to itself, got a further stage and was run:
\* its chain holds a Composer stage between other stages.
C14_Witness ==
  /\ op.name = "ToList"
  /\ fault = "none"
  /\ \E a \in DOMAIN heap : heap[a].kind = "Composer"
  /\ Cardinality(DOMAIN heap) = MaxObj
  /\ out # <<>>

\* Composer states: Empty has neither head nor tail, Built has both.
Empty(c) == c.first = Null /\ c.last = Null
Built(h, c) == c.first \in DOMAIN h /\ c.last \in DOMAIN h

C15_Step(c) ==
  /\ Empty(comp'[c]) \/ Built(heap', comp'[c])
  /\ (op'.name \in AppendStyle /\ op'.c = c)
       => (fault' = "none" /\ Built(heap', comp'[c]))
  /\ (op'.name \in AppendStyle \ {"append"} /\ op'.c = c /\ Empty(comp[c]))
       => Len(Shape(heap', comp'[c].first, Fuel(heap'))) = 1
  /\ (op'.name = "ToList" /\ op'.c = c /\ Built(heap, comp[c]))
       => /\ fault' = "none"
          /\ Built(heap', comp'[c])
          /\ Len(Shape(heap', comp'[c].first, Fuel(heap')))
               = Len(Shape(heap, comp[c].first, Fuel(heap)))
  /\ (op'.name = "clear" /\ op'.c = c) => Empty(comp'[c])

\* C15: a composer is Empty or Built; every Select, Where, Take, OrderBy and
\* append call, whatever is appended, leaves it Built, and on an Empty
\* composer (new or cleared) a stage call leaves a chain of that one stage;
\* ToList leaves a Built composer Built with as many stages; clear leaves
\* it Empty.
C15_StateMachine == [][fault = "none" => \A c \in Two : C15_Step(c)]_vars

\* C16: a Take call with a negative capacity is rejected, it does not return
\* normally, and no Take stage has a capacity in the upper half of size_t,
\* where the negative ints land when taken modulo 2^SizeBits.
C16_CapacityValidation ==
  /\ (op.name = "Take" /\ op.n < 0) => op.outcome = "rejected"
  /\ \A a \in DOMAIN heap :
       heap[a].kind = "Take" => heap[a].capacity < 2 ^ (SizeBits - 1)

\* The places in the pull log lg where stage s returned.
PullsOf(lg, s) == {i \in DOMAIN lg : lg[i].s = s}

\* The first pull of stage s in lg is return number i.
FirstPull(lg, s, i) == i \in PullsOf(lg, s) /\ \A j \in PullsOf(lg, s) : i <= j

\* Stage a was pulled during the run with the log lg, and after its first
\* pull returned the stage u it pulls from was not pulled again.
DrainedOnce(lg, a, u) ==
  \A i \in PullsOf(lg, a) : \A j \in PullsOf(lg, u) :
    FirstPull(lg, a, i) => j < i

\* C17: when ToList has returned, every OrderBy stage pulled during the run
\* has processed = true, and its upstream was pulled only before the first
\* pull of the OrderBy stage returned: one drain, no pull of the upstream on
\* the later pulls.
C17_OneDrainPass ==
  (op.name = "ToList" /\ fault = "none")
  => \A a \in DOMAIN heap :
       (heap[a].kind = "OrderBy" /\ PullsOf(log, a) # {})
       => /\ heap[a].processed
          /\ DrainedOnce(log, a, heap[a].previousFunction)

\* C18: in every ToList run each pull of a stage, of the source and of a
\* Composer stage carries reset = true if it is the first pull of that stage
\* in the run, and reset = false otherwise.
C18_ResetDiscipline ==
  (op.name = "ToList" /\ fault = "none")
  => \A i \in DOMAIN log : log[i].reset <=> FirstPull(log, log[i].s, i)

\* A run through a Composer stage and a Where stage in which the head was
\* pulled three times or more and the source more often than the head.
C18_Witness ==
  /\ op.name = "ToList"
  /\ fault = "none"
  /\ {"Composer", "Where"} \subseteq Kinds(heap)
  /\ Cardinality(PullsOf(log, comp["com"].first)) >= 3
  /\ Cardinality(PullsOf(log, Null))
       > Cardinality(PullsOf(log, comp["com"].first))

\* Stage a returned an element during the run with the log lg, and before the
\* first one the stage u it pulls from had returned nullptr and all of its
\* elements.
Barrier(lg, a, u) ==
  \A i \in PullsOf(lg, a) :
    (lg[i].r.st = "val"
     /\ \A k \in PullsOf(lg, a) : lg[k].r.st = "val" => i <= k)
    => /\ \E j \in PullsOf(lg, u) : j < i /\ lg[j].r = Nil
       /\ \A j \in PullsOf(lg, u) : lg[j].r.st = "val" => j < i

\* C19: in every run an OrderBy stage returns its first element only after its
\* upstream has returned nullptr, every element of the upstream has been
\* returned before, and what the stage returns in the run followed by what
\* its buffer still holds is the sorted sequence of all of them.
C19_SortBarrier ==
  (op.name = "ToList" /\ fault = "none")
  => \A a \in DOMAIN heap :
       (heap[a].kind = "OrderBy" /\ PullsOf(log, a) # {})
       => /\ Barrier(log, a, heap[a].previousFunction)
          /\ ValuesOf(log, a) \o heap[a].results
               = SortBy(ValuesOf(log, heap[a].previousFunction),
                        heap[a].comparer)

\* A run in which an OrderBy stage that pulls from another stage returned two
\* elements or more, out of the order in which it got them.
C19_Witness ==
  /\ op.name = "ToList"
  /\ fault = "none"
  /\ \E a \in DOMAIN heap :
       /\ heap[a].kind = "OrderBy"
       /\ heap[a].previousFunction # Null
       /\ Len(ValuesOf(log, a)) >= 2
       /\ ValuesOf(log, a)
            # FirstN(ValuesOf(log, heap[a].previousFunction),
                     Len(ValuesOf(log, a)))

\* During the run with the log lg the stage u was pulled at most n times, not
\* more often than stage a, and not after a had returned nullptr.
PulledLazily(lg, a, u, n) ==
  /\ Cardinality(PullsOf(lg, u)) <= n
  /\ Cardinality(PullsOf(lg, u)) <= Cardinality(PullsOf(lg, a))
  /\ \A i \in PullsOf(lg, a) : \A j \in PullsOf(lg, u) :
       lg[i].r = Nil => j < i

\* C20: in every run a Take stage pulls its upstream at most capacity times,
\* at most once for each pull of itself, and never after it has returned
\* nullptr; a Take of capacity 0 does not pull its upstream.
C20_LimitLaziness ==
  (op.name = "ToList" /\ fault = "none")
  => \A a \in DOMAIN heap :
       heap[a].kind = "Take"
       => PulledLazily(log, a, heap[a].previousFunction, heap[a].capacity)

\* A run in which a Take stage of capacity 1 or more was pulled more often
\* than its capacity, its upstream exactly capacity times, and the source
\* held more elements than were read.
C20_Witness ==
  /\ op.name = "ToList"
  /\ fault = "none"
  /\ \E a \in DOMAIN heap :
       /\ heap[a].kind = "Take"
       /\ heap[a].capacity >= 1
       /\ Cardinality(PullsOf(log, a)) > heap[a].capacity
       /\ Cardinality(PullsOf(log, heap[a].previousFunction))
            = heap[a].capacity
  /\ Len(ValuesOf(log, Null)) < Len(op.values)
  /\ out # <<>>

\* The stage object the call hands to append, for the calls that construct
\* one.
Appendee(call) ==
  IF call.name = "Select" THEN NewSelect(call.fn)
  ELSE IF call.name = "Where" THEN NewWhere(call.fn)
       ELSE IF call.name = "Take" THEN NewTake(ToSizeT(call.n))
            ELSE NewOrderBy(call.fn)

\* The stages of sh as their constructors leave them, which is how deepCopy
\* makes them.
Copies(sh) == [i \in DOMAIN sh |-> FreshStage(sh[i])]

\* The head of c after the step is a new stage whose upstream is the chain c
\* had; the tail is the stage it was, or the new head if c had none.
LinkedInFront(c) ==
  /\ comp'[c].first \in DOMAIN heap'
  /\ Shape(heap', GetPrev(heap', comp'[c].first), Fuel(heap'))
       = Shape(heap, comp[c].first, Fuel(heap))
  /\ IF Empty(comp[c]) THEN comp'[c].last = comp'[c].first
     ELSE /\ comp'[c].last # comp'[c].first
          /\ heap'[comp'[c].last].kind = heap[comp[c].last].kind
          /\ Shape(heap', comp'[c].last, Fuel(heap'))
               = Shape(heap, comp[c].last, Fuel(heap))

C21_Step(c) ==
  (op'.name \in AppendStyle /\ op'.c = c)
  => /\ fault' = "none"
     /\ LinkedInFront(c)
     /\ op'.name # "append"
          => [heap'[comp'[c].first] EXCEPT !.previousFunction = Null]
               = Appendee(op')
     /\ op'.name = "append"
          => /\ heap'[comp'[c].first].kind = "Composer"
             /\ Shape(heap', heap'[comp'[c].first].first, Fuel(heap'))
                  = Copies(Shape(heap, comp[op'.src].first, Fuel(heap)))
                      \o Shape(heap, comp[c].first, Fuel(heap))

\* C21: every Select, Where, Take and OrderBy call and every append of a
\* composer, an empty one included, returns without a call through a null
\* pointer, with the appended stage as the new head, the former head as its
\* upstream, the tail as it was on a Built composer, and head and tail the
\* same stage on an Empty one.
C21_AppendLinking == [][fault = "none" => \A c \in Two : C21_Step(c)]_vars

\* The stage objects reachable from the head of the composer with fields c.
Owned(h, c) == StagesOf(h, [first |-> c.first, last |-> Null])

C22_Frame(c, d) ==
  (op'.name = "ToList" /\ op'.c = c /\ fault' = "none" /\ d # c)
  => Shape(heap', comp'[d].first, Fuel(heap'))
       = Shape(heap, comp[d].first, Fuel(heap))

\* As long as no call went through a null pointer, no stage object is
\* reachable from the heads of both composers of the caller.
C22_Disjoint ==
  fault = "none"
  => Owned(heap, comp["com"]) \cap Owned(heap, comp["com1"]) = {}

\* C22: after every sequence of copies, appends of stages and of composers,
\* clear and ToList calls no stage object is reachable from the heads of two
\* composers, and a ToList of one composer leaves every stage of another
\* with the remaining count and the buffer it had.
C22_ExclusiveOwnership ==
  [][C22_Disjoint' /\ \A c, d \in Two : C22_Frame(c, d)]_vars

\* A composer with a Take stage was copied and one of the two was run: its
\* Take has counted down, the Take of the other has not.
C22_Witness ==
  /\ op.name = "ToList"
  /\ fault = "none"
  /\ copied # {}
  /\ \E d \in Two \ {op.c} :
       /\ Shape(heap, comp[d].first, Fuel(heap))
            = Copies(Shape(heap, comp[op.c].first, Fuel(heap)))
       /\ Shape(heap, comp[d].first, Fuel(heap))
            # Shape(heap, comp[op.c].first, Fuel(heap))

\* C23: when ToList has returned, every Take stage of the chain has
\* remaining = 0 and every OrderBy stage of the chain has an empty buffer.
C23_ExhaustedAtRunEnd ==
  (op.name = "ToList" /\ fault = "none" /\ op.outcome = "null")
  => \A a \in StagesOf(heap, comp[op.c]) :
       /\ heap[a].kind = "Take" => heap[a].remaining = 0
       /\ heap[a].kind = "OrderBy" => heap[a].results = <<>>

\* C24: when a callable has thrown during ToList, the tail stage of the
\* composer has no upstream and no source object is left in the chain.
C24_UnchangedOnFailure ==
  (op.name = "ToList" /\ fault = "none" /\ op.outcome = "throw")
  => /\ GetPrev(heap, comp[op.c].last) = Null
     /\ \A a \in DOMAIN heap : heap[a].kind # "Iterate"

RECURSIVE Kept(_, _)
\* The elements of xs the checker f lets through.
Kept(f, xs) ==
  IF xs = <<>> THEN <<>>
  ELSE (IF ApplyChecker(f, Head(xs)) THEN <<Head(xs)>> ELSE <<>>)
         \o Kept(f, Tail(xs))

\* The stage o applied to the whole sequence xs.
EagerStage(o, xs) ==
  IF o.kind = "Select" THEN [i \in DOMAIN xs |-> ApplyUpdater(o.updater, xs[i])]
  ELSE IF o.kind = "Where" THEN Kept(o.checker, xs)
       ELSE IF o.kind = "Take" THEN FirstN(xs, o.capacity)
            ELSE SortBy(xs, o.comparer)

RECURSIVE Eager(_, _)
\* The stages of sh, listed from the head, applied one after another, the
\* one appended first being applied first.
Eager(sh, xs) ==
  IF sh = <<>> THEN xs ELSE EagerStage(Head(sh), Eager(Tail(sh), xs))

\* C25: every ToList call returns the sequence obtained by applying the
\* stages of the chain, in the order they were appended, each to the whole
\* sequence: map, filter, first n, sort.
C25_LazyEqualsEager ==
  (op.name = "ToList" /\ fault = "none")
  => /\ op.outcome = "null"
     /\ out = Eager(Shape(heap, comp[op.c].first, Fuel(heap)), op.values)

\* A run of a chain of three stages or more with a Where, a Take and an
\* OrderBy that returns elements other than the first ones of the input.
C25_Witness ==
  /\ op.name = "ToList"
  /\ fault = "none"
  /\ {"Where", "Take", "OrderBy"} \subseteq Kinds(heap)
  /\ Len(Shape(heap, comp[op.c].first, Fuel(heap))) >= 3
  /\ out # <<>>
  /\ out # FirstN(op.values, Len(out))

\* C26: every ToList call that has begun on a composer with stages, also one
\* that was appended to itself or copied, returns, and the vector it returns
\* has at most as many elements as the input.
C26_Termination ==
  /\ [](op.name = "ToList" /\ fault = "none"
        => op.outcome = "null" /\ Len(out) <= Len(op.values))
  /\ (run.active ~> ~run.active)

\* A ToList on a composer that holds a Composer stage and a Where stage has
\* returned after collecting elements, fewer than the input has.
C26_Witness ==
  /\ op.name = "ToList"
  /\ fault = "none"
  /\ ~run.active
  /\ {"Composer", "Where"} \subseteq Kinds(heap)
  /\ out # <<>>
  /\ Len(out) < Len(op.values)

\* C10: ToList on a composer without stages ends in a failure reported to the
\* caller, without a call through a null pointer and without returning a
\* vector.
C10_ExplicitFailure ==
  (op.name = "ToList" /\ comp[op.c].last = Null)
  => (op.outcome = "failure" /\ fault = "none")

====
